---- MODULE Spec2Model ----
(***************************************************************************)
(* Model of the backup archive builder of django-superapp-backups:         *)
(*   tasks/backup.py   extract_media_files_from_fixture,                   *)
(*                     copy_media_files_to_backup, create_backup_archive,  *)
(*                     process_backup (a Celery task, max_retries=3)       *)
(*   models/backup.py  Backup                                              *)
(*   models/restore.py Restore.save                                        *)
(* Python strings are sequences of one-character strings.                  *)
(***************************************************************************)
EXTENDS Integers, Sequences, FiniteSets, TLC

VARIABLES
    \* ---- process_backup: the data store, the storage and one worker ----
    db,             \* persisted Backup rows: pk -> row
    storage,        \* files held by PrivateBackupStorage
    clock,          \* last value returned by timezone.now(), in ticks
    scope,          \* the worker's current tenant (thread-local)
    pc,             \* position of the worker in process_backup
    request,        \* the Celery request: pk, retries, run number
    backup,         \* the in-memory Backup instance of the attempt
    local,          \* the locals of the attempt (tenant, fixture_data, ...)
    temp_dir,       \* contents of the attempt's TemporaryDirectory
    writes,         \* history: the rows persisted by this attempt, in order
    steps,          \* history: the pipeline steps done by this attempt
    outcome,        \* how the last run ended
    \* ---- extract_media_files_from_fixture on its own ----
    x_fixture, x_result,
    \* ---- copy_media_files_to_backup and create_backup_archive ----
    m_files, m_result, m_staged, m_archive, m_pc,
    m_outcomes,     \* what the storage and the file system did for each path
    \* ---- Restore.save ----
    restores,       \* persisted Restore rows
    r_last,         \* the last call of Restore.save and whether it raised
    \* ---- the archive name of two runs ----
    n_in,           \* tenant, type and finish time of each run
    n_names,        \* the archive names they get
    \* ---- the tenant scope on several workers ----
    workers,        \* worker -> its position, task and current tenant
    \* ---- the model list of a run ----
    cfg             \* settings, installed models and the list last exported

vars == <<db, storage, clock, scope, pc, request, backup, local, temp_dir,
          writes, steps, outcome, x_fixture, x_result,
          m_files, m_result, m_staged, m_archive, m_pc, m_outcomes,
          restores, r_last, n_in, n_names, workers, cfg>>

orchVars    == <<db, storage, clock, scope, pc, request, backup, local,
                 temp_dir, writes, steps, outcome>>
extractVars == <<x_fixture, x_result>>
copyVars    == <<m_files, m_result, m_staged, m_archive, m_pc, m_outcomes>>
restoreVars == <<restores, r_last>>
nameVars    == <<n_in, n_names>>
sideVars    == <<nameVars, workers, cfg>>

-----------------------------------------------------------------------------
(* Python str helpers *)

RECURSIVE lstrip(_, _)
\* s.lstrip(c): drop every leading c
lstrip(s, c) ==
    IF s # <<>> /\ Head(s) = c THEN lstrip(Tail(s), c) ELSE s

RECURSIVE rstrip(_, _)
rstrip(s, c) ==
    IF s # <<>> /\ s[Len(s)] = c THEN rstrip(SubSeq(s, 1, Len(s) - 1), c) ELSE s

\* s.strip(c)
strip(s, c) == rstrip(lstrip(s, c), c)

\* s.startswith(p)
startswith(s, p) == Len(s) >= Len(p) /\ SubSeq(s, 1, Len(p)) = p

\* s.find(c) + 1: the first index of c in s, 0 when absent
find(s, c) ==
    IF \E i \in 1..Len(s) : s[i] = c
    THEN CHOOSE i \in 1..Len(s) : s[i] = c /\ \A j \in 1..(i - 1) : s[j] # c
    ELSE 0

\* s[i:] with a 1-based first index
from(s, i) == SubSeq(s, i, Len(s))

Letters == {"a", "b", "f", "h", "m", "p", "t", "x"}
scheme_chars == Letters \cup {"+", "-", "."}

\* urllib.parse.urlsplit: [scheme, netloc, path] (query and fragment dropped)
urlsplit(url) ==
    LET i      == find(url, ":")
        hasSch == /\ i > 1
                  /\ url[1] \in Letters
                  /\ \A j \in 1..(i - 1) : url[j] \in scheme_chars
        scheme == IF hasSch THEN SubSeq(url, 1, i - 1) ELSE <<>>
        rest   == IF hasSch THEN from(url, i + 1) ELSE url
        hasNet == startswith(rest, <<"/", "/">>)
        after  == from(rest, 3)
        stops  == {j \in 1..Len(after) : after[j] \in {"/", "?", "#"}}
        cut    == IF stops = {} THEN Len(after) + 1
                  ELSE CHOOSE j \in stops : \A k \in stops : j <= k
        netloc == IF hasNet THEN SubSeq(after, 1, cut - 1) ELSE <<>>
        rest2  == IF hasNet THEN from(after, cut) ELSE rest
        h      == find(rest2, "#")
        rest3  == IF h > 0 THEN SubSeq(rest2, 1, h - 1) ELSE rest2
        q      == find(rest3, "?")
        path   == IF q > 0 THEN SubSeq(rest3, 1, q - 1) ELSE rest3
    IN  [scheme |-> scheme, netloc |-> netloc, hasNet |-> hasNet, path |-> path]

\* urllib.parse.urlparse(value).path
urlparse_path(url) == urlsplit(url).path

-----------------------------------------------------------------------------
(* settings and the model registry (django.apps) *)

\* settings.MEDIA_URL = "/m/"
MEDIA_URL == <<"/", "m", "/">>

\* the installed models and the class of each of their fields
Registry ==
    [ doc |-> [file |-> "FileField", image |-> "ImageField", title |-> "CharField"],
      tag |-> [title |-> "CharField"] ]

\* model_name.split('.'): the parts between the dots
RECURSIVE split_dot(_)
split_dot(s) ==
    LET i == find(s, ".")
    IN  IF i = 0 THEN <<s>> ELSE <<SubSeq(s, 1, i - 1)>> \o split_dot(from(s, i + 1))

\* app_label, model_class_name = model_name.split('.') raises unless two parts;
\* apps.get_model raises LookupError for an unknown app or model
ModelKey(model_name) ==
    LET parts == split_dot(model_name)
    IN  IF Len(parts) # 2 THEN "raise"
        ELSE IF parts = <<<<"a">>, <<"d">>>> THEN "doc"
        ELSE IF parts = <<<<"a">>, <<"t">>>> THEN "tag"
        ELSE "raise"

\* model_class._meta.get_field(field_name): the field class, "raise" when the
\* model has no such field (FieldDoesNotExist)
get_field(key, field_name) ==
    IF field_name \in DOMAIN Registry[key] THEN Registry[key][field_name] ELSE "raise"

\* isinstance(field, (models.FileField, models.ImageField))
IsFileField(cls) == cls \in {"FileField", "ImageField"}

-----------------------------------------------------------------------------
(* extract_media_files_from_fixture *)

\* a fixture value: a str (kind "str", chars s), or a non-str value that is
\* truthy ("int") or falsy ("null")
Str(s)  == [kind |-> "str", s |-> s]
Truthy(v) == IF v.kind = "str" THEN v.s # <<>> ELSE v.kind = "int"

\* field_value.strip() is non-empty: some character is not white space
NonBlank(s) == \E i \in 1..Len(s) : s[i] # " "

\* lines 67-77: the path kept for one string value
file_path_of(field_value) ==
    LET p1 == IF startswith(field_value, <<"h", "t", "t", "p">>)
              THEN lstrip(urlparse_path(field_value), "/")
              ELSE lstrip(field_value, "/")
        media_url == strip(MEDIA_URL, "/")
    IN  IF MEDIA_URL # <<>> /\ startswith(p1, media_url \o <<"/">>)
        THEN from(p1, Len(media_url) + 2)
        ELSE p1

\* lines 54-85: the paths one field of a record adds (none when it is skipped)
field_paths(key, field_name, field_value) ==
    IF ~Truthy(field_value) THEN {}
    ELSE IF get_field(key, field_name) = "raise" THEN {}
    ELSE IF ~IsFileField(get_field(key, field_name)) THEN {}
    ELSE IF ~(field_value.kind = "str" /\ NonBlank(field_value.s)) THEN {}
    ELSE IF file_path_of(field_value.s) = <<>> THEN {}
    ELSE {file_path_of(field_value.s)}

\* obj_paths with one try block only: a field whose lookup raises ends the
\* record
obj_paths_abort(obj) ==
    IF obj.shape = "skip" THEN {}
    ELSE IF ModelKey(obj.model) = "raise" THEN {}
    ELSE IF obj.shape = "badfields" THEN {}
    ELSE IF \E f \in DOMAIN obj.fields :
                Truthy(obj.fields[f]) /\ get_field(ModelKey(obj.model), f) = "raise"
         THEN {}
    ELSE UNION {field_paths(ModelKey(obj.model), f, obj.fields[f]) : f \in DOMAIN obj.fields}

\* lines 42-89: the paths one element of the fixture adds.  obj.shape tells
\* whether the element is a dict with 'model' and 'fields' ("ok"), lacks one of
\* them or is not a dict ("skip"), or has a 'fields' that is not a dict
\* ("badfields": fields.items() raises inside the outer try)
obj_paths(obj) ==
    IF obj.shape = "skip" THEN {}
    ELSE IF ModelKey(obj.model) = "raise" THEN {}
    ELSE IF obj.shape = "badfields" THEN {}
    ELSE UNION {field_paths(ModelKey(obj.model), f, obj.fields[f]) : f \in DOMAIN obj.fields}

\* lines 26-91.  fixture_data is [islist, objs]
extract_media_files_from_fixture(fixture_data) ==
    IF ~fixture_data.islist THEN {}
    ELSE UNION {obj_paths(fixture_data.objs[i]) : i \in 1..Len(fixture_data.objs)}

-----------------------------------------------------------------------------
(* The extractor on its own: every bounded fixture is an initial state *)

MaxRecords == 2

NullValue == [kind |-> "null", s |-> <<>>]
IntValue  == [kind |-> "int", s |-> <<>>]

\* the string values tried for a field
PathValues ==
    { <<>>,                                                   \* ""
      <<" ">>,                                                \* " "
      <<"a">>,                                                \* "a"
      <<"/", "a">>,                                           \* "/a"
      <<"/", "/", "b">>,                                      \* "//b"
      <<"m", "/", "a">>,                                      \* "m/a"
      <<"/", "m", "/", "b">>,                                 \* "/m/b"
      <<"m", "/">>,                                           \* "m/"
      <<"/">>,                                                \* "/"
      <<"h", "t", "t", "p", ":", "/", "/", "x", "/", "m", "/", "a">>,   \* "http://x/m/a"
      <<"h", "t", "t", "p", ":", "/", "/", "x", "/", "b", "?", "a">>,   \* "http://x/b?a"
      <<"h", "t", "t", "p", "/", "a", "?", "b">>,             \* "http/a?b"
      <<"f", "t", "p", ":", "/", "/", "x", "/", "a">> }       \* "ftp://x/a"

Obj(model, fields) == [shape |-> "ok", model |-> model, fields |-> fields]

DocModel  == <<"a", ".", "d">>        \* "a.d": the model doc
TagModel  == <<"a", ".", "t">>        \* "a.t": the model tag
GoneModel == <<"a", ".", "x">>        \* no such model
BadModel  == <<"d">>                  \* no dot

\* the elements tried in a fixture
Objs ==
    {Obj(DocModel, [f \in {"file"} |-> Str(v)]) : v \in PathValues}
    \cup {Obj(DocModel, [f \in {"image"} |-> v]) : v \in {NullValue, IntValue}}
    \cup {Obj(DocModel, [f \in {"title"} |-> Str(v)]) : v \in {<<"a">>, <<"m", "/", "b">>}}
    \cup {Obj(DocModel, [f \in {"ghost", "image"} |->
                            IF f = "ghost" THEN Str(<<"b">>) ELSE Str(v)]) :
              v \in {<<"a">>, <<"/", "m", "/", "b">>}}
    \cup {Obj(TagModel, [f \in {"file"} |-> Str(<<"a">>)])}
    \cup {Obj(m, [f \in {"file"} |-> Str(<<"b">>)]) : m \in {GoneModel, BadModel}}
    \cup {[shape |-> "skip", model |-> DocModel, fields |-> [f \in {"file"} |-> Str(<<"a">>)]],
          [shape |-> "badfields", model |-> DocModel, fields |-> [f \in {"file"} |-> Str(<<"a">>)]]}

SeqsUpTo(S, n) == UNION {[1..k -> S] : k \in 0..n}

Fixtures ==
    {[islist |-> TRUE, objs |-> o] : o \in SeqsUpTo(Objs, MaxRecords)}
    \cup {[islist |-> FALSE, objs |-> <<>>]}

NoResult == [done |-> FALSE, paths |-> {}]

ExtractIdle == x_fixture = [islist |-> FALSE, objs |-> <<>>] /\ x_result = NoResult

ExtractInit == x_fixture \in Fixtures /\ x_result = NoResult

\* media_files = extract_media_files_from_fixture(fixture_data)
Extract ==
    /\ ~x_result.done
    /\ x_result' = [done |-> TRUE, paths |-> extract_media_files_from_fixture(x_fixture)]
    /\ UNCHANGED x_fixture
    /\ UNCHANGED <<orchVars, copyVars, restoreVars, sideVars>>

ExtractNext == Extract

-----------------------------------------------------------------------------
(* copy_media_files_to_backup *)

\* what the storage backend and the local file system do for one path
Outcomes == {"ok", "absent", "exists_raises", "open_raises", "read_raises", "write_raises"}

\* the orders in which a set can be iterated
Orders(S) == {o \in [1..Cardinality(S) -> S] : \A i, j \in 1..Cardinality(S) : o[i] = o[j] => i = j}

NoCopy == [copied |-> <<>>, missing |-> <<>>, staged |-> {}]

\* copy_one with the except clause of lines 136-138 lost: a path whose copy
\* raises is reported nowhere
copy_one_no_except(acc, file_path, o) ==
    IF o = "ok"
    THEN [acc EXCEPT !.copied = Append(@, file_path),
                     !.staged = @ \cup {[path |-> file_path, complete |-> TRUE]}]
    ELSE IF o \in {"read_raises", "write_raises"}
    THEN [acc EXCEPT !.staged = @ \cup {[path |-> file_path, complete |-> FALSE]}]
    ELSE IF o = "absent"
    THEN [acc EXCEPT !.missing = Append(@, file_path)]
    ELSE acc

\* lines 113-138: one turn of the loop.  A file of the staging tree is
\* [path, complete]; open(dest_path, 'wb') creates it before the first chunk
copy_one(acc, file_path, o) ==
    IF o = "ok"
    THEN [acc EXCEPT !.copied = Append(@, file_path),
                     !.staged = @ \cup {[path |-> file_path, complete |-> TRUE]}]
    ELSE IF o \in {"read_raises", "write_raises"}
    THEN [acc EXCEPT !.missing = Append(@, file_path),
                     !.staged = @ \cup {[path |-> file_path, complete |-> FALSE]}]
    ELSE [acc EXCEPT !.missing = Append(@, file_path)]

RECURSIVE copy_loop(_, _, _)
copy_loop(order, outcomes, acc) ==
    IF order = <<>> THEN acc
    ELSE copy_loop(Tail(order), outcomes, copy_one(acc, Head(order), outcomes[Head(order)]))

\* copy_media_files_to_backup with the try block around the whole loop: the
\* first path that raises is reported missing and ends the loop
copy_media_files_to_backup_one_try(order, outcomes) ==
    LET raising == {i \in 1..Len(order) : outcomes[order[i]] \notin {"ok", "absent"}}
        stop == IF raising = {} THEN Len(order)
                ELSE CHOOSE i \in raising : \A j \in raising : i <= j
    IN  copy_loop(SubSeq(order, 1, stop), outcomes, NoCopy)

\* lines 94-143: media_files iterated in the given order
copy_media_files_to_backup(order, outcomes) == copy_loop(order, outcomes, NoCopy)

-----------------------------------------------------------------------------
(* create_backup_archive *)

EmptyFixture == [islist |-> TRUE, objs |-> <<>>]

Entry(name, kind, json, complete, version) ==
    [name |-> name, kind |-> kind, json |-> json, complete |-> complete,
     format_version |-> version]

\* archive_media_path = f"media/{relative_path}"
archive_media_path(relative_path) == <<"media/">> \o relative_path

\* lines 167-174: the media entries, rglob yielding the files in the given order
media_entries(files) ==
    [i \in 1..Len(files) |->
        Entry(archive_media_path(files[i].path), "media", EmptyFixture, files[i].complete, "")]

\* the files of the staging root while the archive is written: the fixture
\* and the zip file in the root, the staged media files under media/
staging_root(staged) ==
    {[dir |-> "root", path |-> <<"backup.json">>, complete |-> TRUE],
     [dir |-> "root", path |-> <<"archive.zip">>, complete |-> FALSE]}
    \cup {[dir |-> "media", path |-> f.path, complete |-> f.complete] : f \in staged}

\* rglob over the whole staging root instead of media/
rglob_root(tree) == {[path |-> f.path, complete |-> f.complete] : f \in tree}

\* lines 165-168: media_dir.rglob('*'), the files under media/
rglob_media(tree) ==
    {[path |-> f.path, complete |-> f.complete] : f \in {g \in tree : g.dir = "media"}}

\* lines 158-188: the entries of the zip file, in the order they are written
create_backup_archive(json_file, files) ==
    <<Entry(<<"backup.json">>, "fixture", json_file, TRUE, "")>>
    \o media_entries(files)
    \o <<Entry(<<"backup_manifest.json">>, "manifest", EmptyFixture, TRUE, "1.0")>>

-----------------------------------------------------------------------------
(* Materialization and packaging on their own: every bounded reference set *)
(* is an initial state                                                     *)

Paths == {<<"a">>, <<"b">>, <<"d", "/", "c">>}

\* no path has been tried yet
NoOutcomes == [q \in Paths |-> "none"]

OneDoc(v) == [islist |-> TRUE, objs |-> <<Obj(DocModel, [f \in {"file"} |-> Str(v)])>>]

CopyFixtures == {EmptyFixture, OneDoc(<<"a">>)}

CopyIdle ==
    /\ m_files = {}
    /\ m_result = NoCopy
    /\ m_staged = EmptyFixture
    /\ m_archive = <<>>
    /\ m_pc = "off"
    /\ m_outcomes = NoOutcomes

\* m_staged is the fixture file of the staging root
CopyInit ==
    /\ m_files \in SUBSET Paths
    /\ m_result = NoCopy
    /\ m_staged \in CopyFixtures
    /\ m_archive = <<>>
    /\ m_pc = "copy"
    /\ m_outcomes = NoOutcomes

\* media_copy_result = copy_media_files_to_backup(media_files, temp_dir)
Materialize ==
    /\ m_pc = "copy"
    /\ \E order \in Orders(m_files), outcomes \in [m_files -> Outcomes] :
            /\ m_result' = copy_media_files_to_backup(order, outcomes)
            /\ m_outcomes' = [q \in Paths |-> IF q \in m_files THEN outcomes[q] ELSE "none"]
    /\ m_pc' = "pack"
    /\ UNCHANGED <<m_files, m_staged, m_archive>>
    /\ UNCHANGED <<orchVars, extractVars, restoreVars, sideVars>>

\* archive_path = create_backup_archive(temp_file_path, temp_dir, archive_name)
Pack ==
    /\ m_pc = "pack"
    /\ \E files \in Orders(rglob_media(staging_root(m_result.staged))) :
            m_archive' = create_backup_archive(m_staged, files)
    /\ m_pc' = "packed"
    /\ UNCHANGED <<m_files, m_staged, m_result, m_outcomes>>
    /\ UNCHANGED <<orchVars, extractVars, restoreVars, sideVars>>

CopyNext == Materialize \/ Pack

-----------------------------------------------------------------------------
(* The Backup table, the storage and the clock *)

max_retries == 3
MaxRuns     == 2
MaxClock    == 1
TicksPerSec == 2

Backups  == {1, 2}
NoTenant == "None"
Null     == -1                              \* a NULL timestamp
NoFile   == [name |-> <<>>, n |-> 0]        \* a NULL / empty FileField

\* the rows created by the external request: Backup 1 belongs to tenant 7,
\* Backup 2 is installation-wide
NewBackup(b) ==
    [tenant      |-> IF b = 1 THEN "7" ELSE NoTenant,
     type        |-> IF b = 1 THEN <<"all">> ELSE <<"7", "all">>,
     file        |-> NoFile,
     done        |-> FALSE,
     started_at  |-> Null,
     finished_at |-> Null]

Columns == {"tenant", "type", "file", "done", "started_at", "finished_at"}

\* Model.save(update_fields=cols): the row after the columns cols of the
\* instance are written; Model.save() writes every column
save(row, instance, cols) ==
    [c \in Columns |-> IF c \in cols THEN instance[c] ELSE row[c]]

\* timezone.now(): time does not go back; it moves by at most one tick
\* between two reads of the model and stands still at MaxClock
Now == {clock} \cup (IF clock < MaxClock THEN {clock + 1} ELSE {})

\* the format without the time of day: "%Y%m%d"
strftime_date_only(t) == ToString(t \div (2 * TicksPerSec))

\* finished_at.strftime("%Y%m%d_%H%M%S"): whole seconds
strftime(t) == ToString(t \div TicksPerSec)

\* lines 296-299: the parts of the archive name that "_" joins
archive_name_of(tenant, type, finished_at) ==
    IF tenant # NoTenant
    THEN <<"backup", tenant>> \o type \o <<strftime(finished_at)>>
    ELSE <<"backup">> \o type \o <<strftime(finished_at)>>

\* Storage.save(name, content): get_available_name gives a name not yet
\* taken; n counts the files already stored under name
storage_save(files, name, run) ==
    [name |-> name, n |-> Cardinality({f \in files : f.name = name}), run |-> run]

FileOf(f) == [name |-> f.name, n |-> f.n]

-----------------------------------------------------------------------------
(* process_backup *)

NoLocal ==
    [tenant |-> NoTenant, fixture_data |-> EmptyFixture, media_files |-> {},
     media_copy_result |-> NoCopy, archive_name |-> <<>>]

NoTemp == [exists |-> FALSE, archive |-> <<>>]

\* the fixtures the serializer writes in a run, and the storage outcomes tried
RunFixtures == {EmptyFixture, OneDoc(<<"m", "/", "a">>)}
RunOutcomes == {"ok", "read_raises"}

OrchInit ==
    /\ db = [b \in Backups |-> NewBackup(b)]
    /\ storage = {}
    /\ clock = 0
    /\ scope = NoTenant
    /\ pc = "idle"
    /\ request = [pk |-> 1, retries |-> 0, run |-> 0]
    /\ backup = NewBackup(1)
    /\ local = NoLocal
    /\ temp_dir = NoTemp
    /\ writes = <<>>
    /\ steps = <<>>
    /\ outcome = "none"

\* process_backup.delay(backup_pk): a run is queued for a Backup row
Dispatch(b) ==
    /\ pc = "idle"
    /\ request.run < MaxRuns
    /\ request' = [pk |-> b, retries |-> 0, run |-> request.run + 1]
    /\ pc' = "queued"
    /\ outcome' = "none"
    /\ UNCHANGED <<db, storage, clock, scope, backup, local, temp_dir, writes, steps>>
    /\ UNCHANGED <<extractVars, copyVars, restoreVars, sideVars>>

\* line 230: an attempt begins with unset_current_tenant()
Begin ==
    /\ pc = "queued"
    /\ scope' = NoTenant
    /\ pc' = "get"
    /\ backup' = NewBackup(request.pk)
    /\ local' = NoLocal
    /\ UNCHANGED <<db, storage, clock, request, temp_dir, writes, steps, outcome>>
    /\ UNCHANGED <<extractVars, copyVars, restoreVars, sideVars>>

\* lines 232-234: backup = Backup.objects.get(pk=backup_pk); tenant = backup.tenant
\* Get that builds the instance from the primary key without reading the row
Get_unread ==
    /\ pc = "get"
    /\ backup' = NewBackup(request.pk)
    /\ local' = [local EXCEPT !.tenant = db[request.pk].tenant]
    /\ pc' = "set_tenant"
    /\ UNCHANGED <<db, storage, clock, scope, request, temp_dir, writes, steps, outcome>>
    /\ UNCHANGED <<extractVars, copyVars, restoreVars, sideVars>>

Get ==
    /\ pc = "get"
    /\ backup' = db[request.pk]
    /\ local' = [local EXCEPT !.tenant = db[request.pk].tenant]
    /\ pc' = "set_tenant"
    /\ UNCHANGED <<db, storage, clock, scope, request, temp_dir, writes, steps, outcome>>
    /\ UNCHANGED <<extractVars, copyVars, restoreVars, sideVars>>

\* lines 237-238: if tenant: set_current_tenant(tenant)
SetTenant ==
    /\ pc = "set_tenant"
    /\ scope' = IF local.tenant # NoTenant THEN local.tenant ELSE scope
    /\ pc' = "save_started"
    /\ UNCHANGED <<db, storage, clock, request, backup, local, temp_dir, writes, steps, outcome>>
    /\ UNCHANGED <<extractVars, copyVars, restoreVars, sideVars>>

\* SaveStarted with the save of line 241 lost: started_at is set on the
\* instance only
SaveStarted_unsaved ==
    /\ pc = "save_started"
    /\ \E now \in Now :
        /\ clock' = now
        /\ backup' = [backup EXCEPT !.started_at = now]
    /\ steps' = Append(steps, "started")
    /\ pc' = "export"
    /\ UNCHANGED <<db, writes, storage, scope, request, local, temp_dir, outcome>>
    /\ UNCHANGED <<extractVars, copyVars, restoreVars, sideVars>>

\* lines 240-241: started_at = now, saved alone
SaveStarted ==
    /\ pc = "save_started"
    /\ \E now \in Now :
        LET inst == [backup EXCEPT !.started_at = now]
            row  == save(db[request.pk], inst, {"started_at"})
        IN  /\ clock' = now
            /\ backup' = inst
            /\ db' = [db EXCEPT ![request.pk] = row]
            /\ writes' = Append(writes, [cols |-> {"started_at"}, row |-> row])
    /\ steps' = Append(steps, "started")
    /\ pc' = "export"
    /\ UNCHANGED <<storage, scope, request, local, temp_dir, outcome>>
    /\ UNCHANGED <<extractVars, copyVars, restoreVars, sideVars>>

\* lines 261-283: a fresh temporary directory, the serializer writes
\* backup.json into it and the fixture is read back
Export ==
    /\ pc = "export"
    /\ \E f \in RunFixtures : local' = [local EXCEPT !.fixture_data = f]
    /\ temp_dir' = [exists |-> TRUE, archive |-> <<>>]
    /\ steps' = Append(steps, "export")
    /\ pc' = "extract"
    /\ UNCHANGED <<db, storage, clock, scope, request, backup, writes, outcome>>
    /\ UNCHANGED <<extractVars, copyVars, restoreVars, sideVars>>

\* line 286
ExtractMedia ==
    /\ pc = "extract"
    /\ local' = [local EXCEPT !.media_files = extract_media_files_from_fixture(local.fixture_data)]
    /\ steps' = Append(steps, "extract")
    /\ pc' = "copy"
    /\ UNCHANGED <<db, storage, clock, scope, request, backup, temp_dir, writes, outcome>>
    /\ UNCHANGED <<extractVars, copyVars, restoreVars, sideVars>>

\* line 290
CopyMedia ==
    /\ pc = "copy"
    /\ \E order \in Orders(local.media_files), outcomes \in [local.media_files -> RunOutcomes] :
            local' = [local EXCEPT !.media_copy_result = copy_media_files_to_backup(order, outcomes)]
    /\ steps' = Append(steps, "copy")
    /\ pc' = "finish"
    /\ UNCHANGED <<db, storage, clock, scope, request, backup, temp_dir, writes, outcome>>
    /\ UNCHANGED <<extractVars, copyVars, restoreVars, sideVars>>

\* lines 295-299: finished_at = now on the instance only, and the archive name
SetFinished ==
    /\ pc = "finish"
    /\ \E now \in Now :
        /\ clock' = now
        /\ backup' = [backup EXCEPT !.finished_at = now]
        /\ local' = [local EXCEPT !.archive_name = archive_name_of(local.tenant, backup.type, now)]
    /\ pc' = "package"
    /\ UNCHANGED <<db, storage, scope, request, temp_dir, writes, steps, outcome>>
    /\ UNCHANGED <<extractVars, copyVars, restoreVars, sideVars>>

\* line 302
Package ==
    /\ pc = "package"
    /\ \E files \in Orders(rglob_media(staging_root(local.media_copy_result.staged))) :
            temp_dir' = [temp_dir EXCEPT !.archive = create_backup_archive(local.fixture_data, files)]
    /\ steps' = Append(steps, "package")
    /\ pc' = "file_save"
    /\ UNCHANGED <<db, storage, clock, scope, request, backup, local, writes, outcome>>
    /\ UNCHANGED <<extractVars, copyVars, restoreVars, sideVars>>

\* the name backup.file.save stores the archive under (upload_to='backups/')
upload_name == <<"backups/">> \o local.archive_name \o <<".zip">>

\* lines 305-310: backup.file.save(name, content, save=True) stores the
\* archive and then saves the whole instance
FileSave ==
    /\ pc = "file_save"
    /\ LET f    == storage_save(storage, upload_name, request.run)
           inst == [backup EXCEPT !.file = FileOf(f)]
           row  == save(db[request.pk], inst, Columns)
       IN  /\ storage' = storage \cup {f}
           /\ backup' = inst
           /\ db' = [db EXCEPT ![request.pk] = row]
           /\ writes' = Append(writes, [cols |-> Columns, row |-> row])
    /\ steps' = Append(steps, "file")
    /\ pc' = "mark_done"
    /\ UNCHANGED <<clock, scope, request, local, temp_dir, outcome>>
    /\ UNCHANGED <<extractVars, copyVars, restoreVars, sideVars>>

\* lines 305-310 when the instance save inside file.save raises: the archive
\* is in the storage already
FileSaveRaises ==
    /\ pc = "file_save"
    /\ storage' = storage \cup {storage_save(storage, upload_name, request.run)}
    /\ temp_dir' = NoTemp
    /\ pc' = "except"
    /\ backup' = NewBackup(request.pk)
    /\ local' = NoLocal
    /\ UNCHANGED <<db, clock, scope, request, writes, steps, outcome>>
    /\ UNCHANGED <<extractVars, copyVars, restoreVars, sideVars>>

\* lines 312-313
MarkDone ==
    /\ pc = "mark_done"
    /\ LET inst == [backup EXCEPT !.done = TRUE]
           row  == save(db[request.pk], inst, {"file", "done", "finished_at"})
       IN  /\ backup' = inst
           /\ db' = [db EXCEPT ![request.pk] = row]
           /\ writes' = Append(writes, [cols |-> {"file", "done", "finished_at"}, row |-> row])
    /\ steps' = Append(steps, "done")
    /\ pc' = "return"
    /\ UNCHANGED <<storage, clock, scope, request, local, temp_dir, outcome>>
    /\ UNCHANGED <<extractVars, copyVars, restoreVars, sideVars>>

\* lines 261 (leaving the with block), 323, 325
Return ==
    /\ pc = "return"
    /\ temp_dir' = NoTemp
    /\ scope' = NoTenant
    /\ pc' = "idle"
    /\ outcome' = "succeeded"
    /\ backup' = NewBackup(request.pk)
    /\ local' = NoLocal
    /\ request' = [request EXCEPT !.retries = 0]
    /\ writes' = <<>>
    /\ steps' = <<>>
    /\ UNCHANGED <<db, storage, clock>>
    /\ UNCHANGED <<extractVars, copyVars, restoreVars, sideVars>>

\* the statements of the try block that can raise, by stage
Failable == {"get", "save_started", "export", "copy", "package", "file_save", "mark_done"}

\* line 326: an exception reaches the except clause; leaving the with block
\* removes the temporary directory
Raise ==
    /\ pc \in Failable
    /\ temp_dir' = NoTemp
    /\ pc' = "except"
    /\ backup' = NewBackup(request.pk)
    /\ local' = NoLocal
    /\ UNCHANGED <<db, storage, clock, scope, request, writes, steps, outcome>>
    /\ UNCHANGED <<extractVars, copyVars, restoreVars, sideVars>>

\* line 327 and the decorator, lines 212-217: self.retry(exc=exc) queues the
\* task again with retries + 1, or re-raises exc once retries = max_retries
Retry ==
    /\ pc = "except"
    /\ IF request.retries < max_retries
       THEN /\ request' = [request EXCEPT !.retries = @ + 1]
            /\ pc' = "queued"
            /\ UNCHANGED outcome
       ELSE /\ request' = [request EXCEPT !.retries = 0]
            /\ pc' = "idle"
            /\ outcome' = "exhausted"
    /\ writes' = <<>>
    /\ steps' = <<>>
    /\ UNCHANGED <<db, storage, clock, scope, backup, local, temp_dir>>
    /\ UNCHANGED <<extractVars, copyVars, restoreVars, sideVars>>

process_backup ==
    \/ Begin \/ Get \/ SetTenant \/ SaveStarted \/ Export \/ ExtractMedia
    \/ CopyMedia \/ SetFinished \/ Package \/ FileSave \/ FileSaveRaises
    \/ MarkDone \/ Return \/ Raise \/ Retry

-----------------------------------------------------------------------------
(* Restore.save *)

MaxRestores == 2
NoBackup    == 0
Upload      == [name |-> <<"restores/", "u.zip">>, n |-> 0]
Archive(b)  == [name |-> <<"backups/", "backup">> \o NewBackup(b).type \o <<"0", ".zip">>, n |-> 0]

\* bool(FieldFile): a file with a name
HasFile(f) == f.name # <<>>

\* Restore.save with the check of line 78 lost
Restore_save_no_check(self, rows) ==
    LET file == IF self.backup # NoBackup /\ ~HasFile(self.file)
                THEN rows[self.backup].file
                ELSE self.file
    IN  [file |-> file, raised |-> FALSE]

\* lines 74-80 of models/restore.py for a Restore with the fields backup
\* and file: the file after the two ifs, and whether ValueError is raised
Restore_save(self, rows) ==
    LET file == IF self.backup # NoBackup /\ ~HasFile(self.file)
                THEN rows[self.backup].file
                ELSE self.file
    IN  [file |-> file, raised |-> ~HasFile(file)]

RestoreIdle == restores = <<>> /\ r_last = [backup |-> NoBackup, file |-> NoFile, raised |-> FALSE, calls |-> 0]

\* a Backup row before its run and after a run that succeeded
FinishedBackup(b) ==
    [NewBackup(b) EXCEPT !.file = Archive(b), !.done = TRUE, !.started_at = 0, !.finished_at = 0]

RestoreInit ==
    /\ db \in [Backups -> {NewBackup(1), NewBackup(2), FinishedBackup(1), FinishedBackup(2)}]
    /\ \A b \in Backups : db[b].tenant = NewBackup(b).tenant
    /\ storage = {} /\ clock = 0 /\ scope = NoTenant /\ pc = "off"
    /\ request = [pk |-> 1, retries |-> 0, run |-> 0]
    /\ backup = NewBackup(1) /\ local = NoLocal /\ temp_dir = NoTemp
    /\ writes = <<>> /\ steps = <<>> /\ outcome = "none"
    /\ RestoreIdle

\* Restore(backup=b, file=f).save(): the row is persisted unless save raises
RestoreSave(b, f) ==
    /\ Len(restores) < MaxRestores
    /\ LET self == [backup |-> b, file |-> f]
           res  == Restore_save(self, db)
       IN  /\ r_last' = [backup |-> b, file |-> f, raised |-> res.raised, calls |-> Len(restores) + 1]
           /\ restores' = IF res.raised THEN restores
                          ELSE Append(restores, [backup |-> b, own |-> f, file |-> res.file])
    /\ UNCHANGED <<orchVars, extractVars, copyVars, sideVars>>

RestoreNext == \E b \in Backups \cup {NoBackup}, f \in {NoFile, Upload} : RestoreSave(b, f)

-----------------------------------------------------------------------------
(* The archive name on its own: lines 295-299 for two runs *)

MaxStamp == 3

Tenants == {NoTenant, "7", "8"}

\* backup types, as the parts that "_" separates: "all", "7_all", "full"
Types == {<<"all">>, <<"7", "all">>, <<"full">>}

NameInputs == [tenant : Tenants, type : Types, finished_at : 0..MaxStamp]

NameIdle == n_in = <<>> /\ n_names = <<>>

NameInit == n_in \in [1..2 -> NameInputs] /\ n_names = <<>>

\* each run executes lines 295-299 with its tenant, type and finish time
NameRuns ==
    /\ n_names = <<>>
    /\ n_names' = [i \in 1..2 |->
                      archive_name_of(n_in[i].tenant, n_in[i].type, n_in[i].finished_at)]
    /\ UNCHANGED <<n_in, workers, cfg>>
    /\ UNCHANGED <<orchVars, extractVars, copyVars, restoreVars>>

NameNext == NameRuns

-----------------------------------------------------------------------------
(* The tenant scope of process_backup on several workers.  The current     *)
(* tenant is thread-local: each worker has its own.                        *)

Workers == {"w1", "w2"}

\* the Backup rows of this specification: a third row belongs to tenant 8
ScopeBackups == {1, 2, 3}
tenant_of(b) == IF b = 3 THEN "8" ELSE NewBackup(b).tenant

\* left is the current tenant the worker had when its last attempt ended
IdleWorker == [pc |-> "idle", pk |-> 1, retries |-> 0, scope |-> NoTenant, left |-> NoTenant]

WorkersIdle == workers = [w \in Workers |-> IdleWorker]

OnlyWorkers == UNCHANGED <<orchVars, extractVars, copyVars, restoreVars, nameVars, cfg>>

\* process_backup.delay(b) is taken by worker w
W_Dispatch(w, b) ==
    /\ workers[w].pc = "idle"
    /\ workers' = [workers EXCEPT ![w].pc = "queued", ![w].pk = b, ![w].retries = 0]
    /\ OnlyWorkers

\* W_Begin without line 230
W_Begin_no_unset(w) ==
    /\ workers[w].pc = "queued"
    /\ workers' = [workers EXCEPT ![w].pc = "get"]
    /\ OnlyWorkers

\* line 230: unset_current_tenant()
W_Begin(w) ==
    /\ workers[w].pc = "queued"
    /\ workers' = [workers EXCEPT ![w].pc = "get", ![w].scope = NoTenant]
    /\ OnlyWorkers

\* lines 232-234
W_Get(w) ==
    /\ workers[w].pc = "get"
    /\ workers' = [workers EXCEPT ![w].pc = "set_tenant"]
    /\ OnlyWorkers

\* lines 237-238: if tenant: set_current_tenant(tenant)
W_SetTenant(w) ==
    /\ workers[w].pc = "set_tenant"
    /\ workers' = [workers EXCEPT ![w].pc = "save_started",
                                  ![w].scope = IF tenant_of(workers[w].pk) # NoTenant
                                               THEN tenant_of(workers[w].pk) ELSE @]
    /\ OnlyWorkers

\* lines 240-241
W_SaveStarted(w) ==
    /\ workers[w].pc = "save_started"
    /\ workers' = [workers EXCEPT ![w].pc = "export"]
    /\ OnlyWorkers

\* lines 261-279: the serializer runs
W_Export(w) ==
    /\ workers[w].pc = "export"
    /\ workers' = [workers EXCEPT ![w].pc = "commit"]
    /\ OnlyWorkers

\* lines 281-313: media pass, packaging and commit
W_Commit(w) ==
    /\ workers[w].pc = "commit"
    /\ workers' = [workers EXCEPT ![w].pc = "return"]
    /\ OnlyWorkers

\* lines 323-325: unset_current_tenant(); return
W_Return(w) ==
    /\ workers[w].pc = "return"
    /\ workers' = [workers EXCEPT ![w].pc = "idle", ![w].scope = NoTenant,
                                  ![w].retries = 0, ![w].left = NoTenant]
    /\ OnlyWorkers

\* line 326: a statement of the try block raises
W_Raise(w) ==
    /\ workers[w].pc \in {"get", "save_started", "export", "commit"}
    /\ workers' = [workers EXCEPT ![w].pc = "except"]
    /\ OnlyWorkers

\* line 327: self.retry(exc=exc); the attempt ends with the scope as it is
W_Retry(w) ==
    /\ workers[w].pc = "except"
    /\ workers' = [workers EXCEPT
            ![w].pc = IF workers[w].retries < max_retries THEN "queued" ELSE "idle",
            ![w].retries = IF workers[w].retries < max_retries THEN @ + 1 ELSE 0,
            ![w].left = workers[w].scope]
    /\ OnlyWorkers

ScopeNext ==
    \E w \in Workers :
        \/ \E b \in ScopeBackups : W_Dispatch(w, b)
        \/ W_Begin(w) \/ W_Get(w) \/ W_SetTenant(w) \/ W_SaveStarted(w)
        \/ W_Export(w) \/ W_Commit(w) \/ W_Return(w) \/ W_Raise(w) \/ W_Retry(w)

-----------------------------------------------------------------------------
(* The model list of a run: get_models_for_backup_type and lines 244-256 *)

\* the entry of a type in settings.BACKUPS['BACKUP_TYPES']: absent, without
\* 'models', with models '*', or with a list of models
ConfigEntry(present, has_models, star, list) ==
    [present |-> present, has_models |-> has_models, star |-> star, list |-> list]

Absent   == ConfigEntry(FALSE, FALSE, FALSE, <<>>)
NoModels == ConfigEntry(TRUE, FALSE, FALSE, <<>>)
StarEntry == ConfigEntry(TRUE, TRUE, TRUE, <<>>)

ConfigEntries ==
    {Absent, NoModels, StarEntry,
     ConfigEntry(TRUE, TRUE, FALSE, <<"a.d">>),
     ConfigEntry(TRUE, TRUE, FALSE, <<"a.t", "a.d">>)}

ConfigTypes == {"all_models", "docs"}

\* the models of the installed apps, in the order apps.get_app_configs() and
\* get_models() give them
Installations == {<<"a.d">>, <<"a.d", "a.t">>, <<"b.n", "a.d", "a.t">>}

\* what models_to_backup is: '*' or a list
Star == [star |-> TRUE, list |-> <<>>]

\* the settings a call reads, here those of the attempt before
read_settings_cached(c) == IF c.resolved THEN c.at_settings ELSE c.settings

\* line 202: getattr(settings, 'BACKUPS', {}).get('BACKUP_TYPES', {}), read
\* at every call
read_settings(c) == c.settings

\* lines 191-210
get_models_for_backup_type(backup_types, backup_type) ==
    IF ~backup_types[backup_type].present THEN Star
    ELSE IF ~backup_types[backup_type].has_models THEN Star
    ELSE [star |-> backup_types[backup_type].star, list |-> backup_types[backup_type].list]

\* lines 244-256: the args given to the serializer
models_args(backup_types, backup_type, installed) ==
    LET models_to_backup == get_models_for_backup_type(backup_types, backup_type)
    IN  IF models_to_backup.star THEN installed ELSE models_to_backup.list

ConfigIdle ==
    cfg = [settings |-> [t \in ConfigTypes |-> Absent], installed |-> <<"a.d">>,
           type |-> "all_models", args |-> <<>>, resolved |-> FALSE, again |-> FALSE,
           at_settings |-> [t \in ConfigTypes |-> Absent], at_installed |-> <<"a.d">>]

ConfigInit ==
    \E t \in ConfigTypes :
        cfg = [settings |-> [u \in ConfigTypes |-> Absent], installed |-> <<"a.d">>,
               type |-> t, args |-> <<>>, resolved |-> FALSE, again |-> FALSE,
               at_settings |-> [u \in ConfigTypes |-> Absent], at_installed |-> <<"a.d">>]

OnlyConfig == UNCHANGED <<orchVars, extractVars, copyVars, restoreVars, nameVars, workers>>

\* settings.BACKUPS is edited between two attempts
Reconfigure(t, e) ==
    /\ cfg.settings[t] # e
    /\ cfg' = [cfg EXCEPT !.settings[t] = e]
    /\ OnlyConfig

\* an app is installed or removed between two attempts
Install(i) ==
    /\ cfg.installed # i
    /\ cfg' = [cfg EXCEPT !.installed = i]
    /\ OnlyConfig

\* an attempt executes lines 244-256; at_settings and at_installed keep what
\* the settings and the installed models were at that time, and again tells
\* that the settings were edited since the attempt before
ResolveModels ==
    /\ cfg' = [cfg EXCEPT !.args = models_args(read_settings(cfg), cfg.type, cfg.installed),
                          !.resolved = TRUE,
                          !.again = cfg.resolved /\ cfg.settings # cfg.at_settings,
                          !.at_settings = cfg.settings,
                          !.at_installed = cfg.installed]
    /\ OnlyConfig

ConfigNext ==
    \/ \E t \in ConfigTypes, e \in ConfigEntries : Reconfigure(t, e)
    \/ \E i \in Installations : Install(i)
    \/ ResolveModels

SideIdle == NameIdle /\ WorkersIdle /\ ConfigIdle

-----------------------------------------------------------------------------
(* Specifications *)

\* process_backup runs on one worker
Init == OrchInit /\ ExtractIdle /\ CopyIdle /\ RestoreIdle /\ SideIdle

Next ==
    \/ \E b \in Backups : Dispatch(b)
    \/ Begin \/ Get \/ SetTenant \/ SaveStarted \/ Export \/ ExtractMedia
    \/ CopyMedia \/ SetFinished \/ Package \/ FileSave \/ FileSaveRaises
    \/ MarkDone \/ Return \/ Raise \/ Retry

Spec == Init /\ [][Next]_vars

\* the worker keeps executing the task it has taken
FairSpec == Spec /\ WF_vars(process_backup)

\* the extractor applied to every bounded fixture
ExtractSpecInit == ExtractInit /\ OrchInit /\ CopyIdle /\ RestoreIdle /\ SideIdle
ExtractSpec == ExtractSpecInit /\ [][ExtractNext]_vars

\* materialization then packaging for every bounded reference set
CopySpecInit == CopyInit /\ OrchInit /\ ExtractIdle /\ RestoreIdle /\ SideIdle
CopySpec == CopySpecInit /\ [][CopyNext]_vars

\* the archive names of two runs, for every bounded pair of runs
NameSpecInit == NameInit /\ WorkersIdle /\ ConfigIdle /\ OrchInit /\ ExtractIdle /\ CopyIdle /\ RestoreIdle
NameSpec == NameSpecInit /\ [][NameNext]_vars

\* the tenant scope of runs on two workers
ScopeSpecInit == WorkersIdle /\ NameIdle /\ ConfigIdle /\ OrchInit /\ ExtractIdle /\ CopyIdle /\ RestoreIdle
ScopeSpec == ScopeSpecInit /\ [][ScopeNext]_vars

\* the model list of successive attempts while the settings change
ConfigSpecInit == ConfigInit /\ NameIdle /\ WorkersIdle /\ OrchInit /\ ExtractIdle /\ CopyIdle /\ RestoreIdle
ConfigSpec == ConfigSpecInit /\ [][ConfigNext]_vars

\* Restore.save over the states of the Backup table
RestoreSpecInit == RestoreInit /\ ExtractIdle /\ CopyIdle /\ SideIdle
RestoreSpec == RestoreSpecInit /\ [][RestoreNext]_vars

-----------------------------------------------------------------------------
(* Properties of process_backup *)

Row == db[request.pk]

\* C1: in every persisted state of a Backup row, done implies that file is
\* set, finished_at is set and finished_at >= started_at
C1_DoneImpliesFinished ==
    \A b \in Backups :
        db[b].done => /\ HasFile(db[b].file)
                      /\ db[b].finished_at # Null
                      /\ db[b].finished_at >= db[b].started_at

\* C2: a reader of the persisted row never sees done with no file, and no
\* write of an attempt persists the finished_at of the attempt with done
\* still false: done and finished_at are written together
C2_CommitAtomic ==
    /\ \A b \in Backups : db[b].done => HasFile(db[b].file)
    /\ \A i \in 1..Len(writes) :
          ("finished_at" \in writes[i].cols /\ writes[i].row.finished_at # Null)
             => writes[i].row.done

\* C3: once an attempt has ended (the run is over, or the task is queued
\* for its retry) the worker has no current tenant
C3_ScopeClearedOnExit == pc \in {"idle", "queued"} => scope = NoTenant

\* C4: when the last attempt of a run on a new row has failed after
\* started_at was written and no retry is left, the row has done = false,
\* started_at set and finished_at null
C4_ExhaustedLeavesStarted ==
    (pc = "except" /\ request.retries = max_retries /\ request.run = 1 /\ steps # <<>>)
        => (~Row.done /\ Row.started_at # Null /\ Row.finished_at = Null)

\* C5: when a run succeeds, after any number of failed attempts, the row is
\* done and the storage holds exactly one archive of the run
C5_OneArchivePerRun ==
    outcome = "succeeded"
        => (Row.done /\ Cardinality({f \in storage : f.run = request.run}) = 1)

\* C6: a run makes at most 4 attempts and ends either succeeded with
\* done = true or exhausted with done = false
C6_BoundedRetries ==
    /\ request.retries <= max_retries
    /\ outcome = "succeeded" => Row.done
    /\ outcome = "exhausted" => ~Row.done

\* the parts of C6 that do not depend on the value of done: the retries are
\* bounded, and under FairSpec every queued run ends
AttemptsBounded == request.retries <= max_retries
RunTerminates == (pc = "queued") ~> (pc = "idle" /\ outcome \in {"succeeded", "exhausted"})

-----------------------------------------------------------------------------
(* Properties of materialization and packaging *)

Range(q) == {q[i] : i \in 1..Len(q)}

\* C7: copied and missing partition the reference set, each path appearing
\* exactly once overall
C7_Partition ==
    m_pc # "copy" =>
        /\ Range(m_result.copied) \cup Range(m_result.missing) = m_files
        /\ Range(m_result.copied) \cap Range(m_result.missing) = {}
        /\ Len(m_result.copied) + Len(m_result.missing) = Cardinality(m_files)

\* a materialization that copied one path, found one absent and failed on one
C7_Witness ==
    /\ m_pc = "pack"
    /\ m_result.copied # <<>>
    /\ Cardinality(Range(m_result.missing)) = 2
    /\ \E f \in m_result.staged : ~f.complete

\* C8: the archive holds the fixture as backup.json, one manifest with
\* format_version "1.0", and a media entry media/<p> exactly for the copied p
C8_ArchiveHoldsCopied ==
    m_pc = "packed" =>
        LET E == Range(m_archive)
        IN  /\ \E e \in E : e.name = <<"backup.json">> /\ e.kind = "fixture" /\ e.json = m_staged
            /\ Cardinality({i \in 1..Len(m_archive) : m_archive[i].kind = "manifest"}) = 1
            /\ \A e \in E : e.kind = "manifest" => e.format_version = "1.0"
            /\ {e.name : e \in {d \in E : d.kind = "media"}}
                  = {archive_media_path(p) : p \in Range(m_result.copied)}

-----------------------------------------------------------------------------
(* Properties of the extractor *)

\* the non-empty string values of the file and image fields of the records
\* of a fixture
FileValues(F) ==
    IF ~F.islist THEN {}
    ELSE UNION {
        LET obj == F.objs[i]
        IN  IF obj.shape # "ok" \/ ModelKey(obj.model) = "raise" THEN {}
            ELSE {obj.fields[f].s : f \in {g \in DOMAIN obj.fields :
                        /\ g \in DOMAIN Registry[ModelKey(obj.model)]
                        /\ Registry[ModelKey(obj.model)][g] \in {"FileField", "ImageField"}
                        /\ obj.fields[g].kind = "str"
                        /\ obj.fields[g].s # <<>>}}
        : i \in 1..Len(F.objs)}

\* an absolute URL: a scheme followed by "//" and an authority
IsAbsoluteURL(v) == urlsplit(v).scheme # <<>> /\ urlsplit(v).hasNet

\* the normalization of a value: the path component of an absolute URL,
\* without leading separators, without the media URL prefix
Normalized(v) ==
    LET p0 == IF IsAbsoluteURL(v) THEN urlsplit(v).path ELSE v
        p1 == lstrip(p0, "/")
        prefix == strip(MEDIA_URL, "/") \o <<"/">>
    IN  IF startswith(p1, prefix) THEN from(p1, Len(prefix) + 1) ELSE p1

\* C9: every extracted path is the normalization of a non-empty string value
\* of a file or image field of some record of the fixture
C9_ExtractedAreNormalized ==
    x_result.done =>
        \A p \in x_result.paths : \E v \in FileValues(x_fixture) : p = Normalized(v)

-----------------------------------------------------------------------------
(* Properties of Restore.save *)

-----------------------------------------------------------------------------
(* Properties of the archive name *)

SameOwner == n_in[1].tenant = n_in[2].tenant /\ n_in[1].type = n_in[2].type

\* the whole second a finish time falls in
Second(t) == t \div TicksPerSec

\* C11 as stated: two runs of the same tenant and type whose finish
\* timestamps differ get different archive names
C11_DifferentStamps ==
    (n_names # <<>> /\ SameOwner /\ n_in[1].finished_at # n_in[2].finished_at)
        => n_names[1] # n_names[2]

\* C11 amended: two runs of the same tenant and type that finish in
\* different whole seconds get different archive names
C11_DifferentSeconds ==
    (n_names # <<>> /\ SameOwner /\ Second(n_in[1].finished_at) # Second(n_in[2].finished_at))
        => n_names[1] # n_names[2]

\* two runs of tenant 7 and the same type named, one second apart
C11_Witness ==
    /\ n_names # <<>>
    /\ SameOwner
    /\ n_in[1].tenant = "7"
    /\ Second(n_in[2].finished_at) = Second(n_in[1].finished_at) + 1

\* C18: two runs that finish in different seconds or differ in tenant or in
\* type get different archive names
C18_UniqueName ==
    (n_names # <<>> /\ (\/ Second(n_in[1].finished_at) # Second(n_in[2].finished_at)
                        \/ n_in[1].tenant # n_in[2].tenant
                        \/ n_in[1].type # n_in[2].type))
        => n_names[1] # n_names[2]

-----------------------------------------------------------------------------
(* Properties of the order of the archive *)

\* C12: the archive has the fixture first as backup.json, then exactly the
\* files of the staging media tree as media/<path>, each once, then
\* backup_manifest.json last; no file of the staging root is an entry
C12_EntryOrder ==
    m_pc = "packed" =>
        LET n == Len(m_archive)
            media == {archive_media_path(f.path) : f \in m_result.staged}
        IN  /\ n = Cardinality(m_result.staged) + 2
            /\ m_archive[1].name = <<"backup.json">> /\ m_archive[1].kind = "fixture"
            /\ m_archive[n].name = <<"backup_manifest.json">> /\ m_archive[n].kind = "manifest"
            /\ \A i \in 2..(n - 1) : m_archive[i].kind = "media" /\ m_archive[i].name \in media
            /\ \A p \in media : \E i \in 2..(n - 1) : m_archive[i].name = p

\* an archive with two media entries, one of them of a copy that failed
C12_Witness ==
    /\ m_pc = "packed"
    /\ Len(m_archive) = 4
    /\ \E i \in 2..3 : ~m_archive[i].complete

-----------------------------------------------------------------------------
(* Properties of the order of the steps *)

Pipeline == <<"started", "export", "extract", "copy", "package", "file", "done">>

\* C13: the steps of an attempt are done in the order started_at persisted,
\* export, extraction, materialization, packaging, file persisted, done
\* persisted; once the first step is done, and so before the export and
\* after any later failure, the row has started_at set
C13_StepOrder ==
    /\ Len(steps) <= Len(Pipeline)
    /\ \A i \in 1..Len(steps) : steps[i] = Pipeline[i]
    /\ steps # <<>> => (Row.started_at # Null /\ writes # <<>> /\ writes[1].cols = {"started_at"})
    /\ pc \in {"export", "extract", "copy", "finish", "package", "file_save", "mark_done", "return"}
          => steps # <<>>
    /\ Len(steps) >= 6 => HasFile(Row.file)
    /\ Len(steps) = 7 => Row.done

\* an attempt on a new row that failed after the export
C13_Witness ==
    /\ pc = "except"
    /\ request.run = 1
    /\ Len(steps) >= 2
    /\ Row.started_at # Null
    /\ ~Row.done

-----------------------------------------------------------------------------
(* Properties of the tenant scope on several workers *)

\* C14: on every worker, the export step of a run for Backup b executes with
\* the worker's current tenant equal to b.tenant (none when b has no tenant),
\* whatever the runs of the other workers and the earlier attempts of this
\* worker left behind
C14_ExportScope ==
    \A w \in Workers :
        workers[w].pc = "export" => workers[w].scope = tenant_of(workers[w].pk)

\* a worker exports a backup without tenant after its last attempt ended with
\* the scope of tenant 7, while another worker is in the scope of tenant 8
C14_Witness ==
    \E w, v \in Workers :
        /\ w # v
        /\ workers[w].pc = "export"
        /\ tenant_of(workers[w].pk) = NoTenant
        /\ workers[w].left = "7"
        /\ workers[v].scope = "8"

-----------------------------------------------------------------------------
(* Properties of the model list *)

\* the model list a run must export under settings S and installed models inst
ExpectedModels(S, t, inst) ==
    IF S[t].present /\ S[t].has_models /\ ~S[t].star THEN S[t].list ELSE inst

\* C15: the model list of an attempt is the list configured for the type when
\* there is one, and the installed models as enumerated in that attempt when
\* the type's models are '*', the type is not configured or has no model
\* list; the settings are those in force at the attempt
C15_ModelList ==
    cfg.resolved => cfg.args = ExpectedModels(cfg.at_settings, cfg.type, cfg.at_installed)

\* a later attempt, after the settings were edited, exports a configured list
\* that is not the list of installed models
C15_Witness ==
    /\ cfg.resolved
    /\ cfg.again
    /\ cfg.at_settings[cfg.type].present
    /\ cfg.at_settings[cfg.type].has_models
    /\ ~cfg.at_settings[cfg.type].star
    /\ cfg.args = cfg.at_settings[cfg.type].list
    /\ cfg.args # cfg.at_installed

-----------------------------------------------------------------------------
(* Properties of the extractor on bad references *)

\* the model of record o resolves and its field f is a file field holding a
\* non-blank string that names a path
Contributes(o, f) ==
    /\ o.shape = "ok"
    /\ ModelKey(o.model) # "raise"
    /\ f \in DOMAIN Registry[ModelKey(o.model)]
    /\ IsFileField(Registry[ModelKey(o.model)][f])
    /\ o.fields[f].kind = "str"
    /\ NonBlank(o.fields[f].s)
    /\ file_path_of(o.fields[f].s) # <<>>

\* the model of record o does not resolve, or one of its fields has no field
\* of that name in the model
HasBadReference(o) ==
    /\ o.shape = "ok"
    /\ \/ ModelKey(o.model) = "raise"
       \/ \E f \in DOMAIN o.fields : f \notin DOMAIN Registry[ModelKey(o.model)]

\* C16: the extractor returns a result for every fixture, and in it every
\* file field of every resolvable record has contributed its path, whatever
\* unresolvable records come before it and whatever fields of the same record
\* fail to be looked up
C16_BadReferencesSkipped ==
    x_result.done =>
        \A i \in 1..Len(x_fixture.objs) :
            LET o == x_fixture.objs[i]
            IN  /\ o.shape = "ok" /\ ModelKey(o.model) = "raise" => obj_paths(o) = {}
                /\ o.shape = "ok" =>
                      \A f \in DOMAIN o.fields :
                          Contributes(o, f) => file_path_of(o.fields[f].s) \in x_result.paths

\* a fixture whose first record has an unknown model and whose second record
\* has an unknown field next to a file field, extracted
C16_Witness ==
    /\ x_result.done
    /\ Len(x_fixture.objs) = 2
    /\ ModelKey(x_fixture.objs[1].model) = "raise"
    /\ x_fixture.objs[1].shape = "ok"
    /\ ModelKey(x_fixture.objs[2].model) = "doc"
    /\ HasBadReference(x_fixture.objs[2])
    /\ \E f \in DOMAIN x_fixture.objs[2].fields : Contributes(x_fixture.objs[2], f)
    /\ x_result.paths # {}

-----------------------------------------------------------------------------
(* Properties of the failures of single assets *)

\* C17: a path is in copied exactly when the storage said it exists and its
\* whole copy went through; a path that the storage does not have, or for
\* which any step raised, is in missing, and the paths after it are handled
\* all the same: the call returns a result for every path
C17_FailureIsMissing ==
    m_pc # "copy" =>
        \A q \in m_files :
            /\ q \in Range(m_result.copied) <=> m_outcomes[q] = "ok"
            /\ m_outcomes[q] # "ok" => q \in Range(m_result.missing)
            /\ m_outcomes[q] \in Outcomes

\* three paths, one of which raised in the existence check, the other two
\* copied
C17_Witness ==
    /\ m_pc = "pack"
    /\ m_files = Paths
    /\ \E q \in Paths : /\ m_outcomes[q] = "exists_raises"
                        /\ \A r \in Paths \ {q} : m_outcomes[r] = "ok"
    /\ Len(m_result.copied) = 2
    /\ Len(m_result.missing) = 1

-----------------------------------------------------------------------------
(* Properties of done over successive runs *)

\* C19: with one run at a time on a record, no write of process_backup takes
\* a persisted row whose done is true to a row whose done is false or whose
\* file is empty, the save of every column inside file.save included
C19_DoneMonotonic ==
    [][\A b \in Backups : db[b].done => (db'[b].done /\ HasFile(db'[b].file))]_vars

\* a later run on a finished record has stored its file with the save of
\* every column, and the row is still done
C19_Witness ==
    /\ pc = "mark_done"
    /\ request.run = 2
    /\ Len(writes) = 2
    /\ writes[2].cols = Columns
    /\ Row.done
    /\ HasFile(Row.file)

====
